---- MODULE Spec2Model ----
(***************************************************************************)
(* A model of src/src/jit-pintool/clrjit_inscount.cpp, the Pin tool that   *)
(* counts the instructions executed inside the JIT module.  The model is   *)
(* the TARGET_IA32 / TARGET_LINUX build: a thread's count lives in two     *)
(* ADDRINT halves and the path separator is "/".  The counting code of the *)
(* other build, with one 64-bit register per thread, runs beside it on the *)
(* same events, in the variable x64.                                       *)
(*                                                                         *)
(* Machine words are scaled: an ADDRINT has WordBits bits (32 in the       *)
(* program) and a UINT64 has 2 * WordBits bits, so that every carry and    *)
(* every wrap of the program's arithmetic is reachable and enumerable.     *)
(***************************************************************************)
EXTENDS Integers, Sequences, FiniteSets, TLC

\* Bounds of the model.
WordBits == 2
MaxThreads == 2
MaxBlocks == 6
MaxChunks == 3

RECURSIVE Pow2(_)
Pow2(k) == IF k = 0 THEN 1 ELSE 2 * Pow2(k - 1)

\* 2^(width of ADDRINT) and 2^(width of UINT64).
Word == Pow2(WordBits)
DWord == Word * Word
ADDRINT == 0 .. (Word - 1)
UINT64 == 0 .. (DWord - 1)

\* x | y on naturals, bit by bit.
RECURSIVE BitOr(_, _)
BitOr(x, y) ==
    IF x = 0 THEN y
    ELSE IF y = 0 THEN x
    ELSE (IF x % 2 = 1 \/ y % 2 = 1 THEN 1 ELSE 0) + 2 * BitOr(x \div 2, y \div 2)

\* (UINT64)x << 32: a left shift by one ADDRINT width, in 64-bit arithmetic.
ShiftLeftWord(x) == (x * Word) % DWord

(***************************************************************************)
(* The analysis routines (TARGET_IA32).                                    *)
(***************************************************************************)
DoCountLow(countLow, numInsts) == (countLow + numInsts) % Word

\* A variant of OverflowedLow that compares with <=.
OverflowedLowOrEqual(countLow, numInsts) == IF countLow <= numInsts THEN 1 ELSE 0

OverflowedLow(countLow, numInsts) == IF countLow < numInsts THEN 1 ELSE 0

DoCountHigh(countHigh) == (countHigh + 1) % Word

\* A variant of ReadInsCount that does not shift the high half.
ReadInsCountNoShift(countLow, countHigh) == BitOr(countHigh, countLow)

\* The value ReadInsCount stores into *result.
ReadInsCount(countLow, countHigh) == BitOr(ShiftLeftWord(countHigh), countLow)

\* A variant of CountBlock that runs the If-call on the register as it was
\* before DoCountLow.
CountBlockStaleLow(countLow, countHigh, numInsts) ==
    <<DoCountLow(countLow, numInsts),
      IF OverflowedLow(countLow, numInsts) # 0 THEN DoCountHigh(countHigh)
                                               ELSE countHigh>>

\* The code Trace inserts before a basic block of numInsts instructions:
\* DoCountLow into InsCountLowReg, then OverflowedLow on the updated register
\* as the If-call, then DoCountHigh into InsCountHighReg as the Then-call.
\* The result is the pair <<InsCountLowReg, InsCountHighReg>> after the block.
CountBlock(countLow, countHigh, numInsts) ==
    LET low2 == DoCountLow(countLow, numInsts)
    IN  <<low2,
          IF OverflowedLow(low2, numInsts) # 0 THEN DoCountHigh(countHigh)
                                               ELSE countHigh>>

\* A variant of ThreadCount that forgets the high half.
ThreadCountLowOnly(low, high) == low

\* The inserted addition of line 79: ((UINT64)high << 32) | low.
ThreadCount(low, high) == BitOr(ShiftLeftWord(high), low)

(***************************************************************************)
(* The analysis routines of the build with 64-bit registers.               *)
(***************************************************************************)
\* A variant of DoCount that counts blocks, not instructions.
DoCountIncrement(count, numInsts) == (count + 1) % DWord

\* An ADDRINT of this build is as wide as a UINT64.
DoCount(count, numInsts) == (count + numInsts) % DWord

\* The value this build's ReadInsCount stores into *result.
ReadInsCountX64(count) == count

(***************************************************************************)
(* IsJitImage.  A name is a sequence of characters; std::string positions  *)
(* are 0-based and npos stands for "not found".                            *)
(***************************************************************************)
npos == -1

PathSep == "/"

JitTerm == <<"c", "l", "r", "j", "i", "t">>

SetMax(S) == CHOOSE x \in S : \A y \in S : y <= x

SetMin(S) == CHOOSE x \in S : \A y \in S : x <= y

\* name.rfind(sep): the last position holding sep.
RFind(name, sep) ==
    LET hits == {i \in 0 .. (Len(name) - 1) : name[i + 1] = sep}
    IN  IF hits = {} THEN npos ELSE SetMax(hits)

\* name.find(term, pos): the first position at or after pos where term starts.
Find(name, term, pos) ==
    LET hits == {i \in pos .. (Len(name) - Len(term)) :
                    SubSeq(name, i + 1, i + Len(term)) = term}
    IN  IF hits = {} THEN npos ELSE SetMin(hits)

\* A variant of FileNameStart that looks for the first separator.
FileNameStartAtFirstSep(name) ==
    LET sep == Find(name, <<PathSep>>, 0)
    IN  IF sep = npos THEN 0 ELSE sep + 1

FileNameStart(name) ==
    LET sep == RFind(name, PathSep)
    IN  IF sep = npos THEN 0 ELSE sep + 1

IsJitImage(name) == Find(name, JitTerm, FileNameStart(name)) # npos

(***************************************************************************)
(* The instrumented process: the images it loads and the traces it runs.   *)
(***************************************************************************)
ImgJit == [name |-> <<"/", "d", "/">> \o JitTerm, low |-> 1, high |-> 2, sym |-> FALSE]

ImgJitTwin == [name |-> JitTerm \o <<"2">>, low |-> 1, high |-> 2, sym |-> FALSE]

ImgApp == [name |-> <<"/">> \o JitTerm \o <<"/", "a">>, low |-> 2, high |-> 3, sym |-> TRUE]

Images == {ImgJit, ImgJitTwin, ImgApp}

\* A JIT module that was in the process before the tool saw any load.
ImgJitEarly == [name |-> JitTerm, low |-> 0, high |-> 1, sym |-> FALSE]

\* Start addresses of the traces the process runs.
TraceAddrs == {0, 1, 2}

\* BBL_NumIns of the basic blocks of a trace, head first.
TraceBbls == <<Word - 1>>

Range(img) == <<img.low, img.high>>

\* PIN_AddThreadStartFunction .. TRACE_AddInstrumentFunction, in main's order.
Callbacks == <<"ThreadStart", "ThreadFini", "Fini", "ImageLoad", "ImageUnload", "Trace">>

Threads == 0 .. (MaxThreads - 1)

\* What a tool register of a thread's context holds before the tool writes
\* it: nothing the tool may rely on; the model takes all ones.
Unwritten == Word - 1

UnwrittenX64 == DWord - 1

RegValid == "REG_INST_G"

RegInvalid == "REG_INVALID_"

REG_valid(reg) == reg = RegValid

\* A line of the error stream is the sequence of the items written before endl.
UsageText == <<<<"CoreCLR pintool for investigating JIT throughput">>, <<"StringKnobSummary">>>>

AllocText == <<"Could not allocate storage for instruction count.">>

ReportLine(count) == <<"Instructions executed: ", count>>

VARIABLES
    pc,               \* main's position
    QuietKnob,        \* the -quiet knob, parsed by PIN_Init
    Lock,             \* PIN_LOCK: [init |-> BOOLEAN, owner |-> 0 (free) or tid + 1]
    InsCountLowReg,   \* the claimed tool registers
    InsCountHighReg,
    registered,       \* the callbacks registered so far, in order
    cerr,             \* the lines written to the error stream
    exit,             \* <<>> or <<main's return value>>
    TotalCount,
    InstrumentRanges,
    thr,              \* per thread: st, the two counter registers, the local sum,
                      \* and ran: the instructions of the counted blocks it ran
    x64,              \* the build with 64-bit registers: TotalCount, and per
                      \* thread its count register, its local sum and its result
    loaded,           \* the images loaded in the process
    hooked,           \* the images whose Instrumentor_GetInsCount got the call
    cache,            \* per trace address: what Trace inserted
    result,           \* per thread: the location its call of Instrumentor_GetInsCount
                      \* passed, while the caller has not run on
    executed,         \* counted block executions so far
    args,             \* inputs of a function under test
    ret               \* its outputs

vars == <<pc, QuietKnob, Lock, InsCountLowReg, InsCountHighReg, registered, cerr,
          exit, TotalCount, InstrumentRanges, thr, x64, loaded, hooked, cache,
          result, executed, args, ret>>

startVars == <<QuietKnob, InsCountLowReg, InsCountHighReg, registered, exit>>

imageVars == <<InstrumentRanges, loaded, hooked>>

testVars == <<args, ret>>

NotCompiled == [state |-> "none", numIns |-> <<>>]

NoResult == <<>>

sysVars == <<pc, QuietKnob, Lock, InsCountLowReg, InsCountHighReg, registered, cerr,
             exit, TotalCount, InstrumentRanges, thr, x64, loaded, hooked, cache,
             result, executed>>

\* The state when main is entered.
SysInit ==
    /\ pc = "PIN_Init"
    /\ QuietKnob \in BOOLEAN
    /\ Lock = [init |-> FALSE, owner |-> 0]
    /\ InsCountLowReg = "unset"
    /\ InsCountHighReg = "unset"
    /\ registered = <<>>
    /\ cerr = <<>>
    /\ exit = <<>>
    /\ TotalCount = 0
    /\ InstrumentRanges = <<>>
    /\ thr = [t \in Threads |->
                 [st |-> "none", low |-> Unwritten, high |-> Unwritten, sum |-> 0, ran |-> 0]]
    /\ x64 = [TotalCount |-> 0,
              count |-> [t \in Threads |-> UnwrittenX64],
              sum |-> [t \in Threads |-> 0],
              result |-> [t \in Threads |-> NoResult]]
    /\ loaded = {}
    /\ hooked = {}
    /\ cache = [a \in TraceAddrs |-> NotCompiled]
    /\ result = [t \in Threads |-> NoResult]
    /\ executed = 0

Init ==
    /\ SysInit
    /\ args = <<>>
    /\ ret = <<>>

(***************************************************************************)
(* main                                                                    *)
(***************************************************************************)
\* A variant of Usage that returns 0.
UsageReturnsZero ==
    /\ cerr' = cerr \o UsageText
    /\ exit' = <<0>>

Usage ==
    /\ cerr' = cerr \o UsageText
    /\ exit' = <<-1>>

\* if (PIN_Init(argc, argv)) return Usage();
MainPinInit ==
    /\ pc = "PIN_Init"
    /\ \E bad \in BOOLEAN :
          IF bad
          THEN Usage /\ pc' = "returned"
          ELSE pc' = "PIN_InitLock" /\ UNCHANGED <<cerr, exit>>
    /\ UNCHANGED <<QuietKnob, Lock, InsCountLowReg, InsCountHighReg, registered,
                   TotalCount, thr, cache, result, executed>>
    /\ UNCHANGED <<imageVars, testVars>>
    /\ UNCHANGED x64

\* A variant of MainInitLock that leaves the lock as it was.
MainInitLockSkipped ==
    /\ pc = "PIN_InitLock"
    /\ pc' = "PIN_ClaimToolRegister"
    /\ UNCHANGED <<QuietKnob, Lock, InsCountLowReg, InsCountHighReg, registered, cerr,
                   exit, TotalCount, thr, cache, result, executed>>
    /\ UNCHANGED <<imageVars, testVars>>
    /\ UNCHANGED x64

\* PIN_InitLock(&Lock)
MainInitLock ==
    /\ pc = "PIN_InitLock"
    /\ Lock' = [init |-> TRUE, owner |-> 0]
    /\ pc' = "PIN_ClaimToolRegister"
    /\ UNCHANGED <<QuietKnob, InsCountLowReg, InsCountHighReg, registered, cerr, exit,
                   TotalCount, thr, cache, result, executed>>
    /\ UNCHANGED <<imageVars, testVars>>
    /\ UNCHANGED x64

MainClaim ==
    /\ pc = "PIN_ClaimToolRegister"
    /\ InsCountLowReg' \in {RegValid, RegInvalid}
    /\ InsCountHighReg' \in {RegValid, RegInvalid}
    /\ pc' = "claimed"
    /\ UNCHANGED <<QuietKnob, Lock, registered, cerr, exit, TotalCount, thr, cache,
                   result, executed>>
    /\ UNCHANGED <<imageVars, testVars>>
    /\ UNCHANGED x64

\* A variant of Claimed that is content with one register.
ClaimedEither == REG_valid(InsCountLowReg) \/ REG_valid(InsCountHighReg)

Claimed == REG_valid(InsCountLowReg) /\ REG_valid(InsCountHighReg)

MainCheckClaimed ==
    /\ pc = "claimed"
    /\ IF ~Claimed
       THEN /\ cerr' = Append(cerr, AllocText)
            /\ exit' = <<1>>
            /\ pc' = "returned"
       ELSE /\ pc' = "register"
            /\ UNCHANGED <<cerr, exit>>
    /\ UNCHANGED <<QuietKnob, Lock, InsCountLowReg, InsCountHighReg, registered,
                   TotalCount, thr, cache, result, executed>>
    /\ UNCHANGED <<imageVars, testVars>>
    /\ UNCHANGED x64

\* One PIN_Add...Function / ..._AddInstrumentFunction call, in source order.
MainRegister ==
    /\ pc = "register"
    /\ registered' = Append(registered, Callbacks[Len(registered) + 1])
    /\ pc' = IF Len(registered') = Len(Callbacks) THEN "PIN_StartProgram" ELSE "register"
    /\ UNCHANGED <<QuietKnob, Lock, InsCountLowReg, InsCountHighReg, cerr, exit,
                   TotalCount, thr, cache, result, executed>>
    /\ UNCHANGED <<imageVars, testVars>>
    /\ UNCHANGED x64

\* PIN_InitSymbolsAlt; PIN_StartProgram, which never returns.
MainStartProgram ==
    /\ pc = "PIN_StartProgram"
    /\ pc' = "running"
    /\ UNCHANGED <<QuietKnob, Lock, InsCountLowReg, InsCountHighReg, registered, cerr,
                   exit, TotalCount, thr, cache, result, executed>>
    /\ UNCHANGED <<imageVars, testVars>>
    /\ UNCHANGED x64

Registered(cb) == \E i \in 1 .. Len(registered) : registered[i] = cb

\* The host calls a callback only once it is registered and the program runs.
HostCalls(cb) == pc = "running" /\ Registered(cb)

(***************************************************************************)
(* Thread callbacks                                                        *)
(***************************************************************************)
\* A variant of ThreadStart that also zeroes the total.
ThreadStartResetsTotal(tid) ==
    /\ pc = "running" /\ \E i \in 1 .. Len(registered) : registered[i] = "ThreadStart"
    /\ thr[tid].st = "none"
    /\ \A u \in Threads : u < tid => thr[u].st # "none"
    /\ thr' = [thr EXCEPT ![tid] = [st |-> "run", low |-> 0, high |-> 0, sum |-> 0, ran |-> 0]]
    /\ x64' = [x64 EXCEPT !.count[tid] = 0]
    /\ TotalCount' = 0
    /\ UNCHANGED <<pc, Lock, cerr, cache, result, executed>>
    /\ UNCHANGED <<startVars, imageVars, testVars>>

\* A variant of ThreadStart that zeroes InsCountLowReg only.
ThreadStartLowOnly(tid) ==
    /\ pc = "running" /\ \E i \in 1 .. Len(registered) : registered[i] = "ThreadStart"
    /\ thr[tid].st = "none"
    /\ \A u \in Threads : u < tid => thr[u].st # "none"
    /\ thr' = [thr EXCEPT ![tid].st = "run", ![tid].low = 0]
    /\ x64' = [x64 EXCEPT !.count[tid] = 0]
    /\ UNCHANGED <<pc, Lock, cerr, TotalCount, cache, result, executed>>
    /\ UNCHANGED <<startVars, imageVars, testVars>>

\* The host numbers threads in creation order.
ThreadStart(tid) ==
    /\ HostCalls("ThreadStart")
    /\ thr[tid].st = "none"
    /\ \A u \in Threads : u < tid => thr[u].st # "none"
    /\ thr' = [thr EXCEPT ![tid] = [st |-> "run", low |-> 0, high |-> 0, sum |-> 0, ran |-> 0]]
    /\ x64' = [x64 EXCEPT !.count[tid] = 0]
    /\ UNCHANGED <<pc, Lock, cerr, TotalCount, cache, result, executed>>
    /\ UNCHANGED <<startVars, imageVars, testVars>>

\* The host calls ThreadFini on the exiting thread.
ThreadFiniEnter(tid) ==
    /\ HostCalls("ThreadFini")
    /\ thr[tid].st = "run"
    /\ thr' = [thr EXCEPT ![tid].st = "ThreadFini"]
    /\ result' = [result EXCEPT ![tid] = NoResult]
    /\ x64' = [x64 EXCEPT !.result[tid] = NoResult]
    /\ UNCHANGED <<pc, Lock, cerr, TotalCount, cache, executed>>
    /\ UNCHANGED <<startVars, imageVars, testVars>>

\* A variant of LockFree: a lock that never blocks.
LockNeverBlocks == TRUE

\* PIN_GetLock(&Lock, tid + 1): blocks until the lock is free.
LockFree == Lock.owner = 0

ThreadFiniGetLock(tid) ==
    /\ thr[tid].st = "ThreadFini"
    /\ LockFree
    /\ Lock' = [Lock EXCEPT !.owner = tid + 1]
    /\ thr' = [thr EXCEPT ![tid].st = "locked"]
    /\ UNCHANGED <<pc, cerr, TotalCount, cache, result, executed>>
    /\ UNCHANGED <<startVars, imageVars, testVars>>
    /\ UNCHANGED x64

\* TotalCount += ...: read the two registers, load TotalCount and add.
ThreadFiniAdd(tid) ==
    /\ thr[tid].st = "locked"
    /\ thr' = [thr EXCEPT ![tid].st = "added",
                          ![tid].sum = (TotalCount + ThreadCount(thr[tid].low, thr[tid].high)) % DWord]
    /\ x64' = [x64 EXCEPT !.sum[tid] = (x64.TotalCount + x64.count[tid]) % DWord]
    /\ UNCHANGED <<pc, Lock, cerr, TotalCount, cache, result, executed>>
    /\ UNCHANGED <<startVars, imageVars, testVars>>

\* ... and store the sum.
ThreadFiniStore(tid) ==
    /\ thr[tid].st = "added"
    /\ TotalCount' = thr[tid].sum
    /\ thr' = [thr EXCEPT ![tid].st = "stored", ![tid].sum = 0]
    /\ x64' = [x64 EXCEPT !.TotalCount = x64.sum[tid], !.sum[tid] = 0]
    /\ UNCHANGED <<pc, Lock, cerr, cache, result, executed>>
    /\ UNCHANGED <<startVars, imageVars, testVars>>

\* A variant of ThreadFiniReleaseLock that returns with the lock held.
ThreadFiniKeepsLock(tid) ==
    /\ thr[tid].st = "stored"
    /\ thr' = [thr EXCEPT ![tid].st = "done"]
    /\ UNCHANGED <<pc, Lock, cerr, TotalCount, cache, result, executed>>
    /\ UNCHANGED <<startVars, imageVars, testVars>>
    /\ UNCHANGED x64

\* PIN_ReleaseLock(&Lock)
ThreadFiniReleaseLock(tid) ==
    /\ thr[tid].st = "stored"
    /\ Lock' = [Lock EXCEPT !.owner = 0]
    /\ thr' = [thr EXCEPT ![tid].st = "done"]
    /\ UNCHANGED <<pc, cerr, TotalCount, cache, result, executed>>
    /\ UNCHANGED <<startVars, imageVars, testVars>>
    /\ UNCHANGED x64

InThreadFini(tid) == thr[tid].st \in {"ThreadFini", "locked", "added", "stored"}

(***************************************************************************)
(* Image callbacks                                                         *)
(***************************************************************************)
\* A variant of RTN_Valid that takes every lookup as a success.
RtnAlwaysValid(img) == TRUE

\* RTN_Valid(RTN_FindByName(img, "Instrumentor_GetInsCount"))
RTN_Valid(img) == img.sym

ImageLoad(img) ==
    /\ HostCalls("ImageLoad")
    /\ img \notin loaded
    /\ loaded' = loaded \cup {img}
    /\ InstrumentRanges' = IF IsJitImage(img.name)
                           THEN Append(InstrumentRanges, Range(img))
                           ELSE InstrumentRanges
    /\ hooked' = IF RTN_Valid(img) THEN hooked \cup {img} ELSE hooked
    /\ UNCHANGED <<pc, Lock, cerr, TotalCount, thr, cache, result, executed>>
    /\ UNCHANGED <<startVars, testVars>>
    /\ UNCHANGED x64

\* std::find: the first position holding p, or 0 for end().
FindRange(ranges, p) ==
    LET hits == {i \in 1 .. Len(ranges) : ranges[i] = p}
    IN  IF hits = {} THEN 0 ELSE SetMin(hits)

\* A variant of Erase that removes every element equal to the one at position i.
EraseAllEqual(ranges, i) == SelectSeq(ranges, LAMBDA p : p # ranges[i])

\* vector::erase of the element at position i.
Erase(ranges, i) == SubSeq(ranges, 1, i - 1) \o SubSeq(ranges, i + 1, Len(ranges))

\* InstrumentRanges after the body of ImageUnload has run for img.
RangesAfterUnload(img) ==
    IF IsJitImage(img.name) /\ FindRange(InstrumentRanges, Range(img)) # 0
    THEN Erase(InstrumentRanges, FindRange(InstrumentRanges, Range(img)))
    ELSE InstrumentRanges

\* The host reports the unload of an image whose load the tool never saw.
ImageUnloadUnseen(img) ==
    /\ HostCalls("ImageUnload")
    /\ img \notin loaded
    /\ InstrumentRanges' = RangesAfterUnload(img)
    /\ UNCHANGED <<pc, Lock, cerr, TotalCount, thr, x64, cache, result, executed>>
    /\ UNCHANGED <<startVars, testVars, loaded, hooked>>

ImageUnload(img) ==
    /\ HostCalls("ImageUnload")
    /\ img \in loaded
    /\ loaded' = loaded \ {img}
    /\ InstrumentRanges' = RangesAfterUnload(img)
    /\ hooked' = hooked \ {img}
    /\ UNCHANGED <<pc, Lock, cerr, TotalCount, thr, cache, result, executed>>
    /\ UNCHANGED <<startVars, testVars>>
    /\ UNCHANGED x64

(***************************************************************************)
(* Trace instrumentation and the inserted code                             *)
(***************************************************************************)
\* A variant of Found that takes the high address as part of the range.
FoundInclusiveHigh(addr) ==
    \E i \in 1 .. Len(InstrumentRanges) :
        addr >= InstrumentRanges[i][1] /\ addr <= InstrumentRanges[i][2]

\* The loop over InstrumentRanges: goto Found.
Found(addr) ==
    \E i \in 1 .. Len(InstrumentRanges) :
        addr >= InstrumentRanges[i][1] /\ addr < InstrumentRanges[i][2]

\* The host calls Trace once for a trace it is about to run for the first time.
Trace(addr) ==
    /\ HostCalls("Trace")
    /\ cache[addr].state = "none"
    /\ cache' = [cache EXCEPT ![addr] =
                    IF Found(addr)
                    THEN [state |-> "counted", numIns |-> TraceBbls]
                    ELSE [state |-> "plain", numIns |-> <<>>]]
    /\ UNCHANGED <<pc, Lock, cerr, TotalCount, thr, result, executed>>
    /\ UNCHANGED <<startVars, imageVars, testVars>>
    /\ UNCHANGED x64

\* A thread runs basic block b of the compiled trace at addr: the calls inserted
\* before the block run first, on the thread's own registers.
ExecBlock(tid, addr, b) ==
    /\ pc = "running"
    /\ thr[tid].st = "run"
    /\ cache[addr].state # "none"
    /\ IF cache[addr].state = "counted"
       THEN /\ executed < MaxBlocks
            /\ LET regs == CountBlock(thr[tid].low, thr[tid].high, cache[addr].numIns[b])
               IN  thr' = [thr EXCEPT ![tid].low = regs[1], ![tid].high = regs[2],
                                      ![tid].ran = @ + TraceBbls[b]]
            /\ x64' = [x64 EXCEPT !.count[tid] = DoCount(@, cache[addr].numIns[b]),
                                  !.result[tid] = NoResult]
            /\ executed' = executed + 1
       ELSE /\ x64' = [x64 EXCEPT !.result[tid] = NoResult]
            /\ UNCHANGED <<thr, executed>>
    /\ result' = [result EXCEPT ![tid] = NoResult]
    /\ UNCHANGED <<pc, Lock, cerr, TotalCount, cache>>
    /\ UNCHANGED <<startVars, imageVars, testVars>>

\* A thread calls Instrumentor_GetInsCount of an image where the call to
\* ReadInsCount was inserted.
CallGetInsCount(tid, img) ==
    /\ pc = "running"
    /\ thr[tid].st = "run"
    /\ img \in hooked
    /\ result' = [result EXCEPT ![tid] = <<ReadInsCount(thr[tid].low, thr[tid].high)>>]
    /\ x64' = [x64 EXCEPT !.result[tid] = <<ReadInsCountX64(x64.count[tid])>>]
    /\ UNCHANGED <<pc, Lock, cerr, TotalCount, thr, cache, executed>>
    /\ UNCHANGED <<startVars, imageVars, testVars>>

(***************************************************************************)
(* Process exit                                                            *)
(***************************************************************************)
\* A variant of FiniReports that ignores the knob.
FiniReportsAlways == TRUE

\* if (!QuietKnob)
FiniReports == ~QuietKnob

\* The host calls Fini once, when the process exits: every thread that started
\* has exited and its ThreadFini has returned.
Fini ==
    /\ HostCalls("Fini")
    /\ \A t \in Threads : thr[t].st \in {"none", "done"}
    /\ cerr' = IF FiniReports THEN Append(cerr, ReportLine(TotalCount)) ELSE cerr
    /\ pc' = "finished"
    /\ UNCHANGED <<Lock, TotalCount, thr, cache, result, executed>>
    /\ UNCHANGED <<startVars, imageVars, testVars>>
    /\ UNCHANGED x64

\* The process of Spec: the JIT module, the application that exports
\* Instrumentor_GetInsCount, and one trace inside the JIT module.
ProcImages == {ImgJit, ImgApp}

ProcAddrs == {ImgJit.low}

MainStep ==
    \/ MainPinInit
    \/ MainInitLock
    \/ MainClaim
    \/ MainCheckClaimed
    \/ MainRegister
    \/ MainStartProgram

Next ==
    \/ MainStep
    \/ \E t \in Threads : ThreadStart(t)
    \/ \E t \in Threads : ThreadFiniEnter(t)
    \/ \E t \in Threads : ThreadFiniGetLock(t)
    \/ \E t \in Threads : ThreadFiniAdd(t)
    \/ \E t \in Threads : ThreadFiniStore(t)
    \/ \E t \in Threads : ThreadFiniReleaseLock(t)
    \/ \E img \in ProcImages : ImageLoad(img)
    \/ \E img \in ProcImages : ImageUnload(img)
    \/ \E a \in ProcAddrs : Trace(a)
    \/ \E t \in Threads, a \in ProcAddrs, b \in 1 .. Len(TraceBbls) : ExecBlock(t, a, b)
    \/ \E t \in Threads, img \in ProcImages : CallGetInsCount(t, img)
    \/ Fini

Spec == Init /\ [][Next]_vars

\* Spec with threads that keep running: a thread inside ThreadFini takes its
\* next step when it can, and the lock is handed to a thread that waits for it.
SpecFair ==
    /\ Spec
    /\ \A t \in Threads :
          /\ WF_vars(ThreadFiniGetLock(t))
          /\ WF_vars(ThreadFiniAdd(t))
          /\ WF_vars(ThreadFiniStore(t))
          /\ WF_vars(ThreadFiniReleaseLock(t))

\* The process of Spec under a host that also reports unloads of images whose
\* range the tool does not hold.
UnseenImages == {ImgJit, ImgJitEarly, ImgApp}

NextUnseen ==
    \/ Next
    \/ \E img \in UnseenImages : ImageUnloadUnseen(img)

SpecUnseen == Init /\ [][NextUnseen]_vars

\* A process that loads and unloads every image and runs every trace, before
\* any of its threads is looked at.
NextImages ==
    \/ MainStep
    \/ \E img \in Images : ImageLoad(img)
    \/ \E img \in Images : ImageUnload(img)
    \/ \E a \in TraceAddrs : Trace(a)
    \/ Fini

SpecImages == Init /\ [][NextImages]_vars

(***************************************************************************)
(* The inserted counting code, run on every pair of halves.                *)
(***************************************************************************)
InitCarry ==
    /\ SysInit
    /\ QuietKnob = FALSE
    /\ args \in [countLow : ADDRINT, countHigh : ADDRINT, numInsts : ADDRINT]
    /\ ret = <<>>

RunCountBlock ==
    /\ ret = <<>>
    /\ ret' = CountBlock(args.countLow, args.countHigh, args.numInsts)
    /\ UNCHANGED <<sysVars, args>>

NextCarry == RunCountBlock

SpecCarry == InitCarry /\ [][NextCarry]_vars

(***************************************************************************)
(* IsJitImage, run on every name made of at most MaxChunks chunks.         *)
(***************************************************************************)
NameChunks == {<<PathSep>>, JitTerm, <<"c", "l", "r">>, <<"j", "i", "t">>, <<"x">>}

RECURSIVE NamesOf(_)
NamesOf(k) ==
    IF k = 0 THEN {<<>>}
    ELSE NamesOf(k - 1) \cup {n \o c : n \in NamesOf(k - 1), c \in NameChunks}

InitJit ==
    /\ SysInit
    /\ QuietKnob = FALSE
    /\ args \in NamesOf(MaxChunks)
    /\ ret = <<>>

RunIsJitImage ==
    /\ ret = <<>>
    /\ ret' = <<IsJitImage(args)>>
    /\ UNCHANGED <<sysVars, args>>

NextJit == RunIsJitImage

SpecJit == InitJit /\ [][NextJit]_vars

(***************************************************************************)
(* Properties                                                              *)
(***************************************************************************)
\* The threads whose ThreadFini has run.
Exited == {t \in Threads : thr[t].st = "done"}

\* The value of thread t's counter, as a number: high * 2^32 + low.
ExitCount(t) == thr[t].high * Word + thr[t].low

RECURSIVE SumOfCounts(_)
SumOfCounts(S) ==
    IF S = {} THEN 0
    ELSE LET t == CHOOSE x \in S : TRUE
         IN  ExitCount(t) + SumOfCounts(S \ {t})

\* C1 as stated: the total Fini reports is the sum of the counters of the
\* threads that exited, each taken when its ThreadFini ran.
C1_TotalIsSum ==
    pc = "finished" =>
        /\ TotalCount = SumOfCounts(Exited)
        /\ ~QuietKnob => cerr[Len(cerr)] = ReportLine(SumOfCounts(Exited))

\* C1 amended: the total Fini reports is that sum modulo 2^64 (the width of
\* TotalCount); no exiting thread's contribution is lost or added twice.
C1_TotalIsSumMod64 ==
    pc = "finished" =>
        /\ TotalCount = SumOfCounts(Exited) % DWord
        /\ ~QuietKnob => cerr[Len(cerr)] = ReportLine(SumOfCounts(Exited) % DWord)

\* Fini has run after two threads exited with counts whose sum passes 2^64.
C1_Witness ==
    /\ pc = "finished"
    /\ Cardinality(Exited) = MaxThreads
    /\ \A t \in Exited : ExitCount(t) > 0
    /\ SumOfCounts(Exited) >= DWord

\* C2: DoCountLow, OverflowedLow on the updated low half and DoCountHigh when
\* it overflowed leave halves that combine to the 64-bit sum of the old
\* combined value and the block's instruction count.
C2_CarryIsAdd64 ==
    ret # <<>> =>
        ret[2] * Word + ret[1]
            = (args.countHigh * Word + args.countLow + args.numInsts) % DWord

\* The counting code ran with a carry out of a full high half.
C2_Witness ==
    /\ ret # <<>>
    /\ args.countHigh = Word - 1
    /\ ret[2] = 0
    /\ ret[1] < args.numInsts

\* C3: when Trace runs for a trace, it inserts counting code (for every basic
\* block, with the block's instruction count) if and only if InstrumentRanges
\* then holds a pair with low <= start address < high.
C3_CountedIffInRange ==
    [][\A a \in TraceAddrs :
          (cache[a].state = "none" /\ cache'[a].state # "none") =>
              LET inRange == \E i \in DOMAIN InstrumentRanges :
                                 InstrumentRanges[i][1] <= a /\ a < InstrumentRanges[i][2]
              IN  IF inRange
                  THEN cache'[a] = [state |-> "counted", numIns |-> TraceBbls]
                  ELSE cache'[a] = [state |-> "plain", numIns |-> <<>>]]_vars

\* The trace at the low address was counted, the traces at the high address
\* and below the low address were not, and the range is gone again.
C3_Witness ==
    /\ cache[ImgJit.low].state = "counted"
    /\ cache[ImgJit.high].state = "plain"
    /\ cache[ImgJit.low - 1].state = "plain"
    /\ InstrumentRanges = <<>>

\* C4: InstrumentRanges holds, for every range, as many entries as there are
\* loaded images with that range that IsJitImage accepts.
C4_RangesAreLoadedJitImages ==
    \A p \in {Range(img) : img \in Images} \cup {InstrumentRanges[i] : i \in DOMAIN InstrumentRanges} :
        Cardinality({i \in DOMAIN InstrumentRanges : InstrumentRanges[i] = p})
            = Cardinality({img \in loaded : IsJitImage(img.name) /\ Range(img) = p})

\* Two JIT images with the same range and a non-JIT image are loaded.
C4_Witness ==
    /\ loaded = Images
    /\ InstrumentRanges = <<Range(ImgJit), Range(ImgJitTwin)>>

\* The part of a name after its last path separator.
RECURSIVE Basename(_)
Basename(name) ==
    IF \E i \in DOMAIN name : name[i] = PathSep THEN Basename(Tail(name)) ELSE name

Occurs(term, str) ==
    \E i \in 1 .. (Len(str) - Len(term) + 1) : SubSeq(str, i, i + Len(term) - 1) = term

\* C5: IsJitImage holds of a name exactly when "clrjit" occurs after the
\* name's last path separator.
C5_JitIffInBasename == ret # <<>> => (ret[1] <=> Occurs(JitTerm, Basename(args)))

\* IsJitImage rejected a name that has "clrjit" in a directory component only.
C5_Witness ==
    /\ ret = <<FALSE>>
    /\ Occurs(JitTerm, args)

ReportLines == {i \in DOMAIN cerr : cerr[i][1] = "Instructions executed: "}

\* C6: no report line is written before Fini; Fini writes none when the
\* quiet knob is given, and otherwise exactly one, holding TotalCount.
C6_ReportOnlyAtFini ==
    /\ pc # "finished" => ReportLines = {}
    /\ pc = "finished" =>
          IF QuietKnob
          THEN ReportLines = {}
          ELSE Cardinality(ReportLines) = 1 /\ cerr[Len(cerr)] = ReportLine(TotalCount)

\* Fini ran with the quiet knob after a thread's count was added.
C6_Witness ==
    /\ pc = "finished"
    /\ QuietKnob
    /\ TotalCount > 0
    /\ cerr = <<>>

\* C7: when a claimed register is invalid, main writes the error message and
\* returns 1, with no callback registered, the program not started, and
\* TotalCount and InstrumentRanges as initialized.
C7_ClaimFailureReturnsOne ==
    (pc # "claimed" /\ (InsCountLowReg = RegInvalid \/ InsCountHighReg = RegInvalid)) =>
        /\ pc = "returned"
        /\ exit = <<1>>
        /\ cerr = <<AllocText>>
        /\ registered = <<>>
        /\ TotalCount = 0
        /\ InstrumentRanges = <<>>

\* main returned after claiming a valid low and an invalid high register.
C7_Witness ==
    /\ pc = "returned"
    /\ InsCountLowReg = RegValid
    /\ InsCountHighReg = RegInvalid
    /\ exit = <<1>>

\* C8 as stated: main returns with a failure only when the counting storage
\* could not be claimed.
C8_OnlyClaimFails ==
    pc = "returned" => (InsCountLowReg = RegInvalid \/ InsCountHighReg = RegInvalid)

\* C8 amended: main returns with a failure on two paths, PIN_Init rejecting the
\* command line (the usage text, -1) and the storage claim failing (the
\* message, 1); on every other path the six callbacks are registered and the
\* program is started.
C8_TwoFailurePaths ==
    /\ exit # <<>> => pc = "returned"
    /\ pc = "returned" =>
          \/ exit = <<-1>> /\ cerr = UsageText /\ InsCountLowReg = "unset"
                           /\ InsCountHighReg = "unset"
          \/ exit = <<1>> /\ cerr = <<AllocText>>
                          /\ (InsCountLowReg = RegInvalid \/ InsCountHighReg = RegInvalid)
    /\ pc \in {"running", "finished"} =>
          /\ exit = <<>>
          /\ registered = Callbacks
          /\ InsCountLowReg = RegValid /\ InsCountHighReg = RegValid

\* main returned from Usage.
C8_Witness ==
    /\ pc = "returned"
    /\ exit = <<-1>>
    /\ cerr = UsageText

\* C9 as stated: TotalCount never decreases.
C9_TotalNeverDecreases == [][TotalCount' >= TotalCount]_vars

\* C9 amended: TotalCount changes only when a ThreadFini stores its sum, and
\* then to (TotalCount + the thread's count) modulo 2^64: it does not
\* decrease unless that 64-bit addition wraps.
C9_TotalGrowsMod64 ==
    [][TotalCount' # TotalCount =>
          \E t \in Threads :
              /\ thr[t].st = "added" /\ thr'[t].st = "stored"
              /\ TotalCount' = (TotalCount + ExitCount(t)) % DWord
              /\ TotalCount + ExitCount(t) < DWord => TotalCount' > TotalCount]_vars

\* A ThreadFini has stored a total that wrapped below the thread's own count.
C9_Witness ==
    \E t \in Threads :
        /\ thr[t].st = "stored"
        /\ Exited # {}
        /\ TotalCount < ExitCount(t)

\* C10: a step changes TotalCount only as the store of a ThreadFini, so
\* ThreadStart, ImageLoad, ImageUnload, Trace, the counting code and
\* ReadInsCount leave it as it is; Fini reports it and leaves it as it is.
C10_OnlyThreadFiniWrites ==
    [][/\ TotalCount' # TotalCount =>
              \E t \in Threads : thr[t].st = "added" /\ thr'[t].st = "stored"
       /\ pc' # pc => TotalCount' = TotalCount
       /\ (pc = "running" /\ pc' = "finished" /\ ~QuietKnob) =>
              cerr' = Append(cerr, ReportLine(TotalCount'))]_vars

\* With a nonzero total, a thread has just read its count through
\* ReadInsCount, from counted code of a module that is unloaded again.
C10_Witness ==
    /\ TotalCount > 0
    /\ \E t \in Threads : result[t] # NoResult /\ thr[t].st = "run" /\ ExitCount(t) > 0
    /\ InstrumentRanges = <<>>

\* The threads between PIN_GetLock and PIN_ReleaseLock.
InCritical == {t \in Threads : thr[t].st \in {"locked", "added", "stored"}}

\* C11: at most one thread is between PIN_GetLock and PIN_ReleaseLock, the
\* thread that reads, adds to and stores TotalCount is the owner of Lock,
\* and Lock is owned only by a thread that is doing that addition.
C11_LockSerializesAdd ==
    /\ Cardinality(InCritical) <= 1
    /\ \A t \in InCritical : Lock.owner = t + 1 /\ Lock.init
    /\ Lock.owner # 0 => InCritical = {Lock.owner - 1}
    /\ \A t \in Threads : thr[t].st = "added" => thr[t].sum = (TotalCount + ExitCount(t)) % DWord

\* One thread holds the lock with its sum computed while another waits for it.
C11_Witness ==
    \E t, u \in Threads :
        /\ thr[t].st = "added"
        /\ thr[u].st = "ThreadFini"
        /\ Lock.owner = t + 1
        /\ ExitCount(t) > 0 /\ ExitCount(u) > 0

\* C12: a thread's two halves are zero right after its ThreadStart; a step
\* taken for one thread leaves the halves of every other thread alone; the
\* halves change only at the thread's own ThreadStart and counting steps, so
\* not in its ThreadFini and not when ReadInsCount stores its result.
C12_CounterOwnedByThread ==
    [][\A t \in Threads :
          /\ (thr[t].st = "none" /\ thr'[t].st # "none")
                => thr'[t].low = 0 /\ thr'[t].high = 0
          /\ (thr'[t] # thr[t] \/ result'[t] # result[t])
                => \A u \in Threads \ {t} :
                       thr'[u].low = thr[u].low /\ thr'[u].high = thr[u].high
          /\ (thr'[t].low # thr[t].low \/ thr'[t].high # thr[t].high)
                => thr[t].st \in {"none", "run"} /\ thr'[t].st = "run"
          /\ (InThreadFini(t) \/ thr[t].st = "done")
                => thr'[t].low = thr[t].low /\ thr'[t].high = thr[t].high
          /\ (result'[t] # result[t] /\ result'[t] # NoResult)
                => thr'[t].low = thr[t].low /\ thr'[t].high = thr[t].high
      ]_vars

\* A thread has counted and exited; a later thread has started and has asked
\* for its count before counting anything.
C12_Witness ==
    \E t, u \in Threads :
        /\ thr[t].st = "done" /\ ExitCount(t) > 0
        /\ thr[u].st = "run" /\ thr[u].low = 0 /\ thr[u].high = 0
        /\ result[u] = <<0>>

\* C13: a value arrives in a thread's result location only by that thread's
\* call of Instrumentor_GetInsCount in an image where ImageLoad found the
\* symbol, and the value is the calling thread's own count at that moment,
\* high * 2^32 + low.
C13_ResultIsOwnCount ==
    [][\A t \in Threads :
          /\ (result'[t] # result[t] /\ result'[t] # NoResult)
                => /\ result'[t] = <<thr[t].high * Word + thr[t].low>>
                   /\ thr[t].st = "run"
                   /\ \E img \in loaded : img.sym /\ img \in hooked
                   /\ \A u \in Threads \ {t} : result'[u] = result[u]
          /\ result[t] # NoResult => result[t] = <<ExitCount(t)>>
      ]_vars

\* A thread has read its own count, with both halves in use, while the total
\* and the count of another thread are different numbers.
C13_Witness ==
    \E t, u \in Threads :
        /\ result[t] = <<ExitCount(t)>>
        /\ thr[t].high > 0 /\ thr[t].low > 0
        /\ TotalCount > 0 /\ TotalCount # ExitCount(t)
        /\ thr[u].st # "none" /\ ExitCount(u) # ExitCount(t)

\* What a silent step leaves alone: the total, every thread's halves, the
\* inserted calls, the error stream and main's outcome.
Silent ==
    /\ TotalCount' = TotalCount
    /\ \A t \in Threads : thr'[t].low = thr[t].low /\ thr'[t].high = thr[t].high
    /\ hooked' = hooked
    /\ \A a \in TraceAddrs : cache'[a].numIns = cache[a].numIns
    /\ cerr' = cerr /\ exit' = exit /\ pc' = pc

InNoRange(a) ==
    \A i \in 1 .. Len(InstrumentRanges) :
        a < InstrumentRanges[i][1] \/ a >= InstrumentRanges[i][2]

\* The unload of a JIT image whose range is not held, and a Trace for an
\* address in no range.
SilentUnloadAndTrace ==
    /\ \A img \in UnseenImages :
          (/\ ImageUnloadUnseen(img)
           /\ IsJitImage(img.name)
           /\ FindRange(InstrumentRanges, Range(img)) = 0)
             => Silent /\ InstrumentRanges' = InstrumentRanges
    /\ \A a \in TraceAddrs :
          (cache[a].state = "none" /\ cache'[a].state # "none" /\ InNoRange(a))
             => Silent /\ InstrumentRanges' = InstrumentRanges

\* C14 as stated: the three cases, the load of an image without the symbol
\* among them, leave InstrumentRanges, TotalCount and every counter as they
\* were, insert no call and write no message.
C14_LoadWithoutSymbolKeepsRanges ==
    [][/\ SilentUnloadAndTrace
       /\ \A img \in Images :
             (img \notin loaded /\ img \in loaded' /\ ~img.sym)
                => Silent /\ InstrumentRanges' = InstrumentRanges
      ]_vars

\* C14: as above, but the load of an image without the symbol still appends
\* the image's range when the image is a JIT image.
C14_SilentNoOps ==
    [][/\ SilentUnloadAndTrace
       /\ \A img \in Images :
             (img \notin loaded /\ img \in loaded' /\ ~img.sym)
                => /\ Silent
                   /\ InstrumentRanges' = IF IsJitImage(img.name)
                                          THEN Append(InstrumentRanges, Range(img))
                                          ELSE InstrumentRanges
      ]_vars

\* A trace outside every range was compiled without calls and run, then the
\* JIT module, which has no Instrumentor_GetInsCount, was loaded.
C14_Witness ==
    /\ cache[ImgJit.low].state = "plain"
    /\ ImgJit \in loaded /\ ImgApp \notin loaded
    /\ hooked = {}
    /\ InstrumentRanges = <<Range(ImgJit)>>
    /\ thr[0].st = "run"

\* The threads that have started.
Started == {t \in Threads : thr[t].st # "none"}

\* C15 as stated: the counter of a started thread is the sum of the
\* instruction counts of the counted blocks it has run since its ThreadStart.
C15_CounterIsInstructionsRun ==
    \A t \in Started : ExitCount(t) = thr[t].ran

\* C15: the counter of a started thread is that sum modulo 2^64: every run of
\* a counted block has added the block's BBL_NumIns once, in 64-bit
\* arithmetic, and every run of a block without calls has added nothing.
C15_CounterIsInstructionsRunMod64 ==
    \A t \in Started : ExitCount(t) = thr[t].ran % DWord

\* A thread has run so many counted instructions that its counter has wrapped.
C15_Witness ==
    \E t \in Started : thr[t].ran >= DWord /\ ExitCount(t) = thr[t].ran - DWord

\* Some callback has run.
CallbackHasRun ==
    \/ Started # {}
    \/ loaded # {}
    \/ \E a \in TraceAddrs : cache[a].state # "none"
    \/ pc = "finished"

\* C16: a callback is registered only after the lock is initialized and both
\* registers are claimed and valid; callbacks are registered in main's order;
\* the program is started only with all six registered; and no callback has
\* run before that.
C16_StartupOrder ==
    /\ registered # <<>> => Lock.init /\ Claimed
    /\ Len(registered) <= Len(Callbacks)
    /\ \A i \in 1 .. Len(registered) : registered[i] = Callbacks[i]
    /\ pc \in {"PIN_StartProgram", "running", "finished"} => registered = Callbacks
    /\ CallbackHasRun => pc \in {"running", "finished"} /\ Lock.init /\ Claimed
    /\ Lock.owner # 0 => Lock.init

\* The program runs: images are loaded, a trace is counted, and a thread
\* holds the lock in its ThreadFini.
C16_Witness ==
    /\ pc = "running"
    /\ loaded = ProcImages
    /\ cache[ImgJit.low].state = "counted"
    /\ Lock.owner # 0
    /\ \E t \in Started : thr[t].st = "locked"

\* How far a thread is on its one way from start to exit.
Rank(st) ==
    CASE st = "none" -> 0
      [] st = "run" -> 1
      [] st = "ThreadFini" -> 2
      [] st = "locked" -> 3
      [] st = "added" -> 4
      [] st = "stored" -> 5
      [] st = "done" -> 6

\* C17: a thread never goes back on its way, so it is inside ThreadFini once;
\* from some point on no thread is inside ThreadFini, that is, every thread
\* that entered has got the lock, added its count, released the lock and
\* returned; and whenever every started thread has exited, the lock is free.
C17_ThreadFiniReturns ==
    /\ [][\A t \in Threads : Rank(thr'[t].st) >= Rank(thr[t].st)]_vars
    /\ <>[](\A t \in Threads : ~InThreadFini(t))
    /\ [](Started \subseteq Exited => Lock.owner = 0)

\* Every thread has gone through ThreadFini, the last one after waiting for
\* the lock, and the lock is free.
C17_Witness ==
    /\ Started = Threads
    /\ Exited = Threads
    /\ Lock.owner = 0
    /\ TotalCount > 0

\* C18: run on the same events, the build with two halves and the build with
\* one 64-bit register hold the same count for every started thread,
\* count = high * 2^32 + low, the same pending sum, the same values written
\* by ReadInsCount and the same TotalCount.
C18_BuildsAgree ==
    /\ x64.TotalCount = TotalCount
    /\ x64.result = result
    /\ \A t \in Started :
          /\ x64.count[t] = thr[t].high * Word + thr[t].low
          /\ x64.sum[t] = thr[t].sum

\* A thread whose count needed the high half has exited and is in the total,
\* and another thread has read its own count.
C18_Witness ==
    \E t, u \in Threads :
        /\ thr[t].st = "done" /\ thr[t].high > 0
        /\ x64.TotalCount = x64.count[t]
        /\ x64.result[u] # NoResult /\ thr[u].low > 0

====
